---- MODULE Spec2Model ----
(***************************************************************************)
(* Employee management service (NolanSeverns/Employment-Management-App).   *)
(*                                                                         *)
(* Two programs are modelled over the same state:                          *)
(*   Spec      src/server.js          the CRUD service without sessions    *)
(*   SpecAuth  src/unnamed/part_000   the variant with passport sessions   *)
(*   SpecGuard src/unnamed/part_000   checkRole applied to drawn inputs    *)
(*                                                                         *)
(* A request handler runs synchronously up to its first await (the         *)
(* database query); the query is one atomic statement of the database;     *)
(* the continuation only maps the result to a response.  A request in      *)
(* flight is therefore a slot holding the handler's local variables, and   *)
(* one action executes its statement and sends the response.               *)
(*                                                                         *)
(* The employees table lives in the database and outlives the process:     *)
(* Init draws it from a bounded set of tables.  The rate limiter and       *)
(* helmet are library middleware in front of every route; the requests     *)
(* modelled are the ones the limiter admits.                               *)
(***************************************************************************)
EXTENDS Integers, Sequences, FiniteSets, TLC

\* ------------------------------------------------------------------ bounds
MaxId == 2          \* ids the sequence of public.employees hands out: 1..MaxId

\* --------------------------------------------------------------- constants
NaN == -1           \* parseInt's NaN (no id is negative)
NullId == 0         \* SQL NULL in the integer column employee_id
SaltRounds == 10    \* bcrypt.hash(newPassword, 10)

VARIABLES
    proc,        \* the process: position of startServer, socket, pool, exit
    table,       \* rows of public.employees
    nextId,      \* next value of the id sequence of public.employees
    inflight,    \* slot -> the request awaiting a query, or Idle
    last,        \* the response the latest step sent (NoResponse: none)
    usedIds,     \* history: every id a row of the table has ever had
    deletedIds   \* history: ids for which DELETE /employees/:id answered 200

vars == <<proc, table, nextId, inflight, last, usedIds, deletedIds>>

\* ------------------------------------------------------------- path params
DigitChars == <<"0", "1", "2", "3", "4", "5", "6", "7", "8", "9">>

IsDigit(c) == \E i \in 1..10 : DigitChars[i] = c

DigitVal(c) == (CHOOSE i \in 1..10 : DigitChars[i] = c) - 1

RECURSIVE ParseDigits(_, _, _)
ParseDigits(s, i, acc) ==
    IF i > Len(s) \/ ~IsDigit(s[i])
    THEN acc
    ELSE ParseDigits(s, i + 1, acc * 10 + DigitVal(s[i]))

\* parseInt(req.params.id): the leading decimal digits, NaN when there are none
parseInt(s) ==
    IF Len(s) = 0 \/ ~IsDigit(s[1]) THEN NaN ELSE ParseDigits(s, 1, 0)

isNaN(n) == n = NaN

\* The :id path segments requests are sent with
Segments ==
    {<<DigitChars[i + 1]>> : i \in 1..MaxId}
        \cup {<<"1", "x">>, <<"x">>}

\* ------------------------------------------------------------------ bodies
\* JSON bodies of POST/PUT /employees; "" stands for an absent or empty field
Bodies ==
    { [name |-> "Alice", email |-> "a@x.com", department |-> "Eng"],
      [name |-> "Bob",   email |-> "b@x.com", department |-> "Ops"],
      [name |-> "",      email |-> "a@x.com", department |-> "Eng"],
      [name |-> "Alice", email |-> "",        department |-> "Eng"],
      [name |-> "Alice", email |-> "a@x.com", department |-> ""] }

NoBody == [name |-> "", email |-> "", department |-> ""]

\* Faulty variant of MissingRequired: only the name is looked at
MissingNameOnly(b) == b.name = ""

\* !name || !email || !department
MissingRequired(b) == b.name = "" \/ b.email = "" \/ b.department = ""

\* ---------------------------------------------------------------- password
Passwords == {"old", "new"}

NoDigest == [alg |-> "none", rounds |-> 0, of |-> ""]

\* bcrypt.hash(pw, rounds): a digest that tells which password it is of
bcryptHash(pw, rounds) == [alg |-> "bcrypt", rounds |-> rounds, of |-> pw]

\* -------------------------------------------------------------------- rows
Roles == {"admin", "manager", "employee"}

\* A row the table holds before the process starts
SeedRow(i, eid, role) ==
    [id |-> i, name |-> "Seed", email |-> "s@x.com", department |-> "Hr",
     role |-> role, password |-> bcryptHash("old", SaltRounds),
     employee_id |-> eid]

\* INSERT INTO public.employees (name, email, department): the id comes from
\* the sequence, the columns not named take their default (NULL)
InsertRow(i, b) ==
    [id |-> i, name |-> b.name, email |-> b.email, department |-> b.department,
     role |-> "employee", password |-> NoDigest, employee_id |-> NullId]

\* WHERE id = $1
RowsById(t, i) == {r \in t : r.id = i}

\* WHERE employee_id = $1 (NULL matches nothing)
RowsByEmployeeId(t, e) == {r \in t : e # NullId /\ r.employee_id = e}

\* Faulty variant of UpdateRow: only the name is written
UpdateNameOnly(r, b) == [r EXCEPT !.name = b.name]

\* UPDATE ... SET name = $1, email = $2, department = $3
UpdateRow(r, b) ==
    [r EXCEPT !.name = b.name, !.email = b.email, !.department = b.department]

\* UPDATE public.employees SET ... WHERE id = $4
UpdateTable(t, i, b) ==
    {IF r.id = i THEN UpdateRow(r, b) ELSE r : r \in t}

\* Faulty variant of DeleteTable: the row is returned but not removed
DeleteKeepsRow(t, i) == t

\* DELETE FROM public.employees WHERE id = $1
DeleteTable(t, i) == {r \in t : r.id # i}

\* Faulty variant of SequenceId: the smallest id no stored row has
SmallestFreeId(t, n) ==
    CHOOSE i \in 1..n : /\ i \notin {r.id : r \in t}
                        /\ \A j \in 1..(i - 1) : j \in {r.id : r \in t}

\* The id the inserted row gets: INSERT names no id, so it is the next value
\* n of the table's sequence, whatever rows t holds
SequenceId(t, n) == n

\* ---------------------------------------------------------------- requests
\* A request in flight: the handler's locals (route, parsed id, body, the
\* password it carries), what the session middleware attached (sess: the
\* identifier stored for its session cookie, user: req.user as a set of at
\* most one row) and the await it is suspended at
Request(route, guard, i, b, sess, pw) ==
    [route |-> route, guard |-> guard, id |-> i, body |-> b, sess |-> sess,
     user |-> {}, phase |-> "new", pw |-> pw]

Idle == [route |-> "idle", guard |-> "", id |-> NaN, body |-> NoBody,
         sess |-> NullId, user |-> {}, phase |-> "idle", pw |-> ""]

\* Two requests can be in flight at once: two clients, each waiting for the
\* response to its request before it sends the next.  The slots list the
\* requests in flight in the order they arrived
Slots == {1, 2}

FreeSlots == {s \in Slots : inflight[s] = Idle}

\* The lowest free slot takes the next request
FreeSlot == CHOOSE s \in FreeSlots : \A u \in FreeSlots : s <= u

\* The requests in flight once the one in slot s is over: later ones move up
Without(f, s) ==
    [u \in Slots |->
        IF u < s THEN f[u]
        ELSE IF u + 1 \in Slots THEN f[u + 1] ELSE Idle]

\* A response with the request it answers: its status, the rows of its JSON
\* body, and whether the request's database statement succeeded.  Status 0:
\* the handler finished without sending a response
Outcome(r, status, rows, dbok) ==
    [route |-> r.route, guard |-> r.guard, id |-> r.id, status |-> status,
     rows |-> rows, dbok |-> dbok, sess |-> r.sess, user |-> r.user,
     pw |-> r.pw, body |-> r.body]

NoResponse == Outcome(Idle, 0, {}, TRUE)

\* res.status(status).json(...): the request is over
Respond(s, r, status, rows, dbok) ==
    /\ last' = Outcome(r, status, rows, dbok)
    /\ inflight' = Without(inflight, s)

\* The handler reached `await pool.query(...)`: the statement is on its way,
\* unless pool.end() has begun, when pool.query rejects and the catch block
\* answers 500
Submit(s, r) ==
    IF proc.closing
    THEN Respond(s, r, 500, {}, FALSE)
    ELSE /\ inflight' = [inflight EXCEPT ![s] = [r EXCEPT !.phase = "query"]]
         /\ last' = NoResponse

\* ----------------------------------------------------------------- startup
InitProc == [pc |-> "init", listening |-> FALSE, connected |-> FALSE,
             closing |-> FALSE, exited |-> FALSE, code |-> 0]

Accepting == proc.listening /\ ~proc.exited

QueriesInFlight ==
    proc.pc = "connectDB" \/ \E s \in Slots : inflight[s] # Idle

\* process.exit(code): the requests in flight die with the process
Exit(code) ==
    /\ proc' = [proc EXCEPT !.exited = TRUE, !.code = code]
    /\ inflight' = [s \in Slots |-> Idle]
    /\ last' = NoResponse

\* Faulty variant of StartServerCall: connectDB() is not awaited, app.listen
\* runs at once
StartServerNoAwait(p) == [p EXCEPT !.pc = "connectDB", !.listening = TRUE]

\* startServer() up to `await connectDB()`: SELECT 1 is issued
StartServerCall(p) == [p EXCEPT !.pc = "connectDB"]

StartServer ==
    /\ proc.pc = "init"
    /\ proc' = StartServerCall(proc)
    /\ last' = NoResponse
    /\ UNCHANGED <<table, nextId, inflight, usedIds, deletedIds>>

\* SELECT 1 succeeded: connectDB returns and startServer calls app.listen
ConnectDBOk ==
    /\ proc.pc = "connectDB" /\ ~proc.exited
    /\ proc' = [proc EXCEPT !.pc = "done", !.connected = TRUE,
                            !.listening = TRUE]
    /\ last' = NoResponse
    /\ UNCHANGED <<table, nextId, inflight, usedIds, deletedIds>>

\* SELECT 1 failed: the catch block calls process.exit(1)
ConnectDBFail ==
    /\ proc.pc = "connectDB" /\ ~proc.exited
    /\ Exit(1)
    /\ UNCHANGED <<table, nextId, usedIds, deletedIds>>

\* SIGINT: the handler starts pool.end()
Sigint ==
    /\ proc.pc # "init" /\ ~proc.exited /\ ~proc.closing
    /\ proc' = [proc EXCEPT !.closing = TRUE]
    /\ last' = NoResponse
    /\ UNCHANGED <<table, nextId, inflight, usedIds, deletedIds>>

\* pool.end() resolved (no query is in flight any more): process.exit(0)
PoolEnded ==
    /\ proc.closing /\ ~proc.exited /\ ~QueriesInFlight
    /\ Exit(0)
    /\ UNCHANGED <<table, nextId, usedIds, deletedIds>>

\* pool.on('error'): an idle client failed, process.exit(-1) (status 255)
PoolError ==
    /\ proc.pc # "init" /\ ~proc.exited
    /\ Exit(255)
    /\ UNCHANGED <<table, nextId, usedIds, deletedIds>>

\* ------------------------------------------------- src/server.js: routes
\* GET /employees
ReceiveGetAll ==
    /\ Accepting /\ FreeSlots # {}
    /\ Submit(FreeSlot, Request("GET_ALL", "", NaN, NoBody, NullId, ""))
    /\ UNCHANGED <<proc, table, nextId, usedIds, deletedIds>>

\* GET /employees/:id
ReceiveGetById(seg) ==
    /\ Accepting /\ FreeSlots # {}
    /\ LET employeeId == parseInt(seg)
           r == Request("GET_ID", "", employeeId, NoBody, NullId, "") IN
         IF isNaN(employeeId)
         THEN Respond(FreeSlot, r, 400, {}, TRUE)
         ELSE Submit(FreeSlot, r)
    /\ UNCHANGED <<proc, table, nextId, usedIds, deletedIds>>

PostsInFlight == Cardinality({s \in Slots : inflight[s].route = "POST"})

\* POST /employees
ReceivePost(b) ==
    /\ Accepting /\ FreeSlots # {}
    /\ nextId + PostsInFlight <= MaxId
    /\ LET r == Request("POST", "", NaN, b, NullId, "") IN
         IF MissingRequired(b)
         THEN Respond(FreeSlot, r, 400, {}, TRUE)
         ELSE Submit(FreeSlot, r)
    /\ UNCHANGED <<proc, table, nextId, usedIds, deletedIds>>

\* PUT /employees/:id
ReceivePut(seg, b) ==
    /\ Accepting /\ FreeSlots # {}
    /\ LET id == parseInt(seg)
           r == Request("PUT", "", id, b, NullId, "") IN
         IF isNaN(id)
         THEN Respond(FreeSlot, r, 400, {}, TRUE)
         ELSE IF MissingRequired(b)
              THEN Respond(FreeSlot, r, 400, {}, TRUE)
              ELSE Submit(FreeSlot, r)
    /\ UNCHANGED <<proc, table, nextId, usedIds, deletedIds>>

\* DELETE /employees/:id
ReceiveDelete(seg) ==
    /\ Accepting /\ FreeSlots # {}
    /\ LET id == parseInt(seg)
           r == Request("DELETE", "", id, NoBody, NullId, "") IN
         IF isNaN(id)
         THEN Respond(FreeSlot, r, 400, {}, TRUE)
         ELSE Submit(FreeSlot, r)
    /\ UNCHANGED <<proc, table, nextId, usedIds, deletedIds>>

Running(s, route) ==
    /\ ~proc.exited
    /\ inflight[s].route = route /\ inflight[s].phase = "query"

\* SELECT * FROM public.employees, then res.json(employees.rows)
ExecGetAll(s) ==
    /\ Running(s, "GET_ALL")
    /\ LET r == inflight[s] IN
         \/ Respond(s, r, 200, table, TRUE)
         \/ Respond(s, r, 500, {}, FALSE)
    /\ UNCHANGED <<proc, table, nextId, usedIds, deletedIds>>

\* SELECT * FROM public.employees WHERE id = $1, then 404 or rows[0]
ExecGetById(s) ==
    /\ Running(s, "GET_ID")
    /\ LET r == inflight[s]
           rows == RowsById(table, r.id) IN
         \/ IF rows = {}
            THEN Respond(s, r, 404, {}, TRUE)
            ELSE Respond(s, r, 200, rows, TRUE)
         \/ Respond(s, r, 500, {}, FALSE)
    /\ UNCHANGED <<proc, table, nextId, usedIds, deletedIds>>

\* INSERT ... RETURNING *, then 201 rows[0]; a rejected INSERT (a constraint,
\* the connection) answers 500
ExecPost(s) ==
    /\ Running(s, "POST")
    /\ LET r == inflight[s]
           row == InsertRow(SequenceId(table, nextId), r.body) IN
         \/ /\ table' = table \cup {row}
            /\ nextId' = nextId + 1
            /\ usedIds' = usedIds \cup {row.id}
            /\ Respond(s, [r EXCEPT !.id = row.id], 201, {row}, TRUE)
         \/ /\ Respond(s, r, 500, {}, FALSE)
            /\ UNCHANGED <<table, nextId, usedIds>>
    /\ UNCHANGED <<proc, deletedIds>>

\* UPDATE ... WHERE id = $4 RETURNING *, then 404 or rows[0]
ExecPut(s) ==
    /\ Running(s, "PUT")
    /\ LET r == inflight[s]
           t == UpdateTable(table, r.id, r.body)
           rows == RowsById(t, r.id) IN
         \/ /\ table' = t
            /\ IF rows = {}
               THEN Respond(s, r, 404, {}, TRUE)
               ELSE Respond(s, r, 200, rows, TRUE)
         \/ /\ Respond(s, r, 500, {}, FALSE)
            /\ UNCHANGED table
    /\ UNCHANGED <<proc, nextId, usedIds, deletedIds>>

\* DELETE ... WHERE id = $1 RETURNING *, then 404 or {message, deletedEmployee}
ExecDelete(s) ==
    /\ Running(s, "DELETE")
    /\ LET r == inflight[s]
           rows == RowsById(table, r.id) IN
         \/ /\ table' = DeleteTable(table, r.id)
            /\ IF rows = {}
               THEN /\ Respond(s, r, 404, {}, TRUE)
                    /\ UNCHANGED deletedIds
               ELSE /\ Respond(s, r, 200, rows, TRUE)
                    /\ deletedIds' = deletedIds \cup {r.id}
         \/ /\ Respond(s, r, 500, {}, FALSE)
            /\ UNCHANGED <<table, deletedIds>>
    /\ UNCHANGED <<proc, nextId, usedIds>>

\* ------------------------------------------------ src/server.js: program
\* The table as the process finds it: empty, or holding one employee that was
\* created before the process started
Init ==
    /\ proc = InitProc
    /\ \E seeded \in BOOLEAN :
         table = IF seeded THEN {SeedRow(1, 1, "employee")} ELSE {}
    /\ nextId = Cardinality(table) + 1
    /\ usedIds = {r.id : r \in table}
    /\ inflight = [s \in Slots |-> Idle]
    /\ last = NoResponse
    /\ deletedIds = {}

Next ==
    \/ StartServer
    \/ ConnectDBOk
    \/ ConnectDBFail
    \/ Sigint
    \/ PoolEnded
    \/ PoolError
    \/ ReceiveGetAll
    \/ \E seg \in Segments : ReceiveGetById(seg)
    \/ \E b \in Bodies : ReceivePost(b)
    \/ \E seg \in Segments, b \in Bodies : ReceivePut(seg, b)
    \/ \E seg \in Segments : ReceiveDelete(seg)
    \/ \E s \in Slots : ExecGetAll(s)
    \/ \E s \in Slots : ExecGetById(s)
    \/ \E s \in Slots : ExecPost(s)
    \/ \E s \in Slots : ExecPut(s)
    \/ \E s \in Slots : ExecDelete(s)

Spec == Init /\ [][Next]_vars

\* ------------------------------------------ src/unnamed/part_000: passport
\* POST /login as written never reaches req.logIn (the verify callback stops
\* after its SELECT), so no action creates a session.  The identifier a
\* request's session holds is an input: any value serializeUser can store
\* (a row's employee_id), or NullId for a request without a login session.
SessionIds == 0..MaxId

\* passport's req.isAuthenticated(): req.user was set by the session strategy
isAuthenticated(r) == r.user # {}

\* ensureAuthenticated: next() iff req.isAuthenticated()
ensureAuthenticated(r) == isAuthenticated(r)

\* Faulty variant of checkRole: a role hierarchy in which admin passes every
\* guard
checkRoleAdminPassesAll(role, r) ==
    /\ isAuthenticated(r)
    /\ \E u \in r.user : u.role = role \/ u.role = "admin"

\* checkRole(role): next() iff
\* req.isAuthenticated() && req.user && req.user.role === role
checkRole(role, r) ==
    /\ isAuthenticated(r)
    /\ r.user # {}
    /\ \E u \in r.user : u.role = role

\* GET /employees/:id, lines 134-141: admin or manager, or the session user's
\* employee_id === employeeId (NULL is === to no number)
MayRead(r, employeeId) ==
    \/ /\ isAuthenticated(r) /\ r.user # {}
       /\ \E u \in r.user : u.role = "admin" \/ u.role = "manager"
    \/ /\ isAuthenticated(r) /\ r.user # {}
       /\ \E u \in r.user :
            u.employee_id # NullId /\ u.employee_id = employeeId

\* deserializeUser(employeeId, done): done(new Error('User not found')) when
\* no row has that employee_id, done(null, rows[0]) otherwise
deserializeUser(t, employeeId) ==
    LET rows == RowsByEmployeeId(t, employeeId) IN
      [err |-> rows = {}, users |-> rows]

\* UPDATE public.employees SET password = $1 WHERE employee_id = $2
ResetTable(t, digest, employeeId) ==
    {IF r \in RowsByEmployeeId(t, employeeId)
     THEN [r EXCEPT !.password = digest] ELSE r : r \in t}

\* The route's code up to its first await, run once the session middleware
\* has passed the request on
Route(s, r) ==
    CASE r.route = "GET_ALL" ->
           IF checkRole(r.guard, r)
           THEN Submit(s, r)
           ELSE Respond(s, r, 403, {}, TRUE)
      [] r.route = "GET_ID" ->
           IF isNaN(r.id)
           THEN Respond(s, r, 400, {}, TRUE)
           ELSE Submit(s, r)
      [] r.route = "RESET" ->
           IF checkRole(r.guard, r)
           THEN /\ inflight' = [inflight EXCEPT ![s] = [r EXCEPT !.phase = "hash"]]
                /\ last' = NoResponse
           ELSE Respond(s, r, 403, {}, TRUE)
      [] r.route = "PROTECTED" ->
           IF ensureAuthenticated(r)
           THEN Respond(s, r, 200, {}, TRUE)
           ELSE Respond(s, r, 302, {}, TRUE)
      [] r.route = "LOGIN" ->
           \* passport-local fails a request without employeeId or password,
           \* and the route's callback answers 401 for `!user`
           IF r.id = NullId \/ r.pw = ""
           THEN Respond(s, r, 401, {}, TRUE)
           ELSE Submit(s, r)
      [] r.route = "POST_ID" ->
           Respond(s, r, 404, {}, TRUE)

\* passport.session(): a request whose session holds an identifier waits for
\* deserializeUser's SELECT; any other request goes on to its route
Enter(s, r) ==
    IF r.sess # NullId
    THEN IF proc.closing
         THEN Respond(s, r, 500, {}, FALSE)
         ELSE /\ inflight' = [inflight EXCEPT
                                ![s] = [r EXCEPT !.phase = "deserialize"]]
              /\ last' = NoResponse
    ELSE Route(s, r)

\* The bodies POST /login is sent with: an employeeId and a password, or
\* neither
Credentials ==
    {[employeeId |-> e, password |-> pw] : e \in 1..MaxId, pw \in Passwords}
        \cup {[employeeId |-> NullId, password |-> ""]}

MaxAuthInFlight == 1    \* requests of the session variant in flight at once

AuthAccepting ==
    /\ Accepting
    /\ Cardinality(Slots \ FreeSlots) < MaxAuthInFlight

\* GET /employees, guarded by checkRole('admin')
AuthReceiveGetAll(sess) ==
    /\ AuthAccepting
    /\ Enter(FreeSlot, Request("GET_ALL", "admin", NaN, NoBody, sess, ""))
    /\ UNCHANGED <<proc, table, nextId, usedIds, deletedIds>>

\* GET /employees/:id
AuthReceiveGetById(seg, sess) ==
    /\ AuthAccepting
    /\ Enter(FreeSlot, Request("GET_ID", "", parseInt(seg), NoBody, sess, ""))
    /\ UNCHANGED <<proc, table, nextId, usedIds, deletedIds>>

\* POST /reset-password {employeeId, newPassword}, guarded by checkRole('admin')
AuthReceiveReset(sess, employeeId, newPassword) ==
    /\ AuthAccepting
    /\ Enter(FreeSlot,
             Request("RESET", "admin", employeeId, NoBody, sess, newPassword))
    /\ UNCHANGED <<proc, table, nextId, usedIds, deletedIds>>

\* GET /protected, guarded by ensureAuthenticated
AuthReceiveProtected(sess) ==
    /\ AuthAccepting
    /\ Enter(FreeSlot, Request("PROTECTED", "", NaN, NoBody, sess, ""))
    /\ UNCHANGED <<proc, table, nextId, usedIds, deletedIds>>

\* POST /login {employeeId, password}
AuthReceiveLogin(sess, employeeId, password) ==
    /\ AuthAccepting
    /\ Enter(FreeSlot, Request("LOGIN", "", employeeId, NoBody, sess, password))
    /\ UNCHANGED <<proc, table, nextId, usedIds, deletedIds>>

\* POST /employees/:id
AuthReceivePostId(seg, sess) ==
    /\ AuthAccepting
    /\ Enter(FreeSlot, Request("POST_ID", "", parseInt(seg), NoBody, sess, ""))
    /\ UNCHANGED <<proc, table, nextId, usedIds, deletedIds>>

Suspended(s, phase) == ~proc.exited /\ inflight[s].phase = phase

\* deserializeUser's SELECT returned: an error (the query's, or 'User not
\* found') goes to next(err) and the request ends 500; a row becomes req.user
Deserialize(s) ==
    /\ Suspended(s, "deserialize")
    /\ LET r == inflight[s]
           d == deserializeUser(table, r.sess) IN
         \/ IF d.err
            THEN Respond(s, r, 500, {}, TRUE)
            ELSE \E u \in d.users : Route(s, [r EXCEPT !.user = {u}])
         \/ Respond(s, r, 500, {}, FALSE)
    /\ UNCHANGED <<proc, table, nextId, usedIds, deletedIds>>

\* GET /employees: SELECT * FROM public.employees, res.json(employees.rows)
AuthExecGetAll(s) ==
    /\ Running(s, "GET_ALL")
    /\ LET r == inflight[s] IN
         \/ Respond(s, r, 200, table, TRUE)
         \/ Respond(s, r, 500, {}, FALSE)
    /\ UNCHANGED <<proc, table, nextId, usedIds, deletedIds>>

\* GET /employees/:id: SELECT by id, then 404, rows[0] or 403
AuthExecGetById(s) ==
    /\ Running(s, "GET_ID")
    /\ LET r == inflight[s]
           rows == RowsById(table, r.id) IN
         \/ IF rows = {}
            THEN Respond(s, r, 404, {}, TRUE)
            ELSE IF MayRead(r, r.id)
                 THEN Respond(s, r, 200, rows, TRUE)
                 ELSE Respond(s, r, 403, {}, TRUE)
         \/ Respond(s, r, 500, {}, FALSE)
    /\ UNCHANGED <<proc, table, nextId, usedIds, deletedIds>>

\* POST /reset-password: bcrypt.hash(newPassword, 10) settled; it rejects a
\* missing newPassword (500), otherwise the UPDATE is issued
ResetHash(s) ==
    /\ Suspended(s, "hash")
    /\ LET r == inflight[s] IN
         IF r.pw = ""
         THEN Respond(s, r, 500, {}, TRUE)
         ELSE Submit(s, r)
    /\ UNCHANGED <<proc, table, nextId, usedIds, deletedIds>>

\* POST /reset-password: the UPDATE ran; 200 whether or not a row matched
ExecReset(s) ==
    /\ Running(s, "RESET")
    /\ LET r == inflight[s] IN
         \/ /\ table' = ResetTable(table, bcryptHash(r.pw, SaltRounds), r.id)
            /\ Respond(s, r, 200, {}, TRUE)
         \/ /\ Respond(s, r, 500, {}, FALSE)
            /\ UNCHANGED table
    /\ UNCHANGED <<proc, nextId, usedIds, deletedIds>>

\* POST /login: the verify callback's SELECT returned.  On an error it calls
\* done(error) (500); otherwise it returns without calling done: neither
\* req.logIn nor a response follows (status 0)
ExecLoginVerify(s) ==
    /\ Running(s, "LOGIN")
    /\ LET r == inflight[s] IN
         \/ Respond(s, r, 0, {}, TRUE)
         \/ Respond(s, r, 500, {}, FALSE)
    /\ UNCHANGED <<proc, table, nextId, usedIds, deletedIds>>

\* The tables the session variant may find: each id present or not, with any
\* role and a password set; employee_id numbers the rows as id does
\* (shift 0) or one further round (shift 1)
AuthTables ==
    UNION { { {SeedRow(i, ((i + shift - 1) % MaxId) + 1, role[i]) : i \in S}
              : role \in [S -> Roles] }
            : S \in SUBSET (1..MaxId), shift \in {0, 1} }

InitAuth ==
    /\ proc = InitProc
    /\ table \in AuthTables
    /\ nextId = MaxId + 1
    /\ usedIds = {}
    /\ deletedIds = {}
    /\ inflight = [s \in Slots |-> Idle]
    /\ last = NoResponse

NextAuth ==
    \/ StartServer
    \/ ConnectDBOk
    \/ ConnectDBFail
    \/ Sigint
    \/ PoolEnded
    \/ PoolError
    \/ \E sess \in SessionIds : AuthReceiveGetAll(sess)
    \/ \E seg \in Segments, sess \in SessionIds : AuthReceiveGetById(seg, sess)
    \/ \E sess \in SessionIds, e \in 1..MaxId, pw \in {"", "new"} :
         AuthReceiveReset(sess, e, pw)
    \/ \E sess \in SessionIds : AuthReceiveProtected(sess)
    \/ \E sess \in SessionIds, c \in Credentials :
         AuthReceiveLogin(sess, c.employeeId, c.password)
    \/ \E seg \in Segments, sess \in SessionIds : AuthReceivePostId(seg, sess)
    \/ \E s \in Slots : Deserialize(s)
    \/ \E s \in Slots : AuthExecGetAll(s)
    \/ \E s \in Slots : AuthExecGetById(s)
    \/ \E s \in Slots : ResetHash(s)
    \/ \E s \in Slots : ExecReset(s)
    \/ \E s \in Slots : ExecLoginVerify(s)

SpecAuth == InitAuth /\ [][NextAuth]_vars

\* ------------------------------- src/unnamed/part_000: checkRole(role)
\* checkRole is a middleware factory: this program applies checkRole(role)
\* for any role to a request with any req.user in front of a handler
GuardUsers ==
    {{}} \cup {{SeedRow(i, i, role)} : i \in 1..MaxId, role \in Roles \cup {""}}

\* A request arrives at a route declared app.get(path, checkRole(role), handler)
GuardReceive(role, user) ==
    /\ Accepting /\ FreeSlots # {}
    /\ inflight' = [inflight EXCEPT ![FreeSlot] =
                      [Request("GUARDED", role, NaN, NoBody, NullId, "")
                         EXCEPT !.user = user, !.phase = "guard"]]
    /\ last' = NoResponse
    /\ UNCHANGED <<proc, table, nextId, usedIds, deletedIds>>

\* The middleware checkRole(role) returned: next() or 403 'Forbidden'
ApplyCheckRole(s) ==
    /\ Suspended(s, "guard")
    /\ LET r == inflight[s] IN
         IF checkRole(r.guard, r)
         THEN /\ inflight' = [inflight EXCEPT ![s] = [r EXCEPT !.phase = "handler"]]
              /\ last' = NoResponse
         ELSE Respond(s, r, 403, {}, TRUE)
    /\ UNCHANGED <<proc, table, nextId, usedIds, deletedIds>>

\* The guarded handler, reached through next(), answers
GuardedHandler(s) ==
    /\ Suspended(s, "handler")
    /\ Respond(s, inflight[s], 200, {}, TRUE)
    /\ UNCHANGED <<proc, table, nextId, usedIds, deletedIds>>

InitGuard ==
    /\ proc = [InitProc EXCEPT !.pc = "done", !.connected = TRUE,
                               !.listening = TRUE]
    /\ table = {}
    /\ nextId = 1
    /\ usedIds = {}
    /\ deletedIds = {}
    /\ inflight = [s \in Slots |-> Idle]
    /\ last = NoResponse

NextGuard ==
    \/ \E role \in Roles, user \in GuardUsers : GuardReceive(role, user)
    \/ \E s \in Slots : ApplyCheckRole(s)
    \/ \E s \in Slots : GuardedHandler(s)

SpecGuard == InitGuard /\ [][NextGuard]_vars

\* =============================================================== claims
Ids(t) == {r.id : r \in t}

Triple(r) == [name |-> r.name, email |-> r.email, department |-> r.department]

\* C1: no response body of any route carries an employee's password column.
C1_NoPasswordInResponse ==
    \A r \in last.rows : "password" \notin DOMAIN r

\* C4: once DELETE /employees/:id answered 200 for an id, no row has that id
\* again and every GET /employees/:id for it answered afterwards is a 404
\* (a 500 only when the SELECT itself failed), whatever ran in between.
C4_DeletedIdStaysGone ==
    /\ \A r \in table : r.id \notin deletedIds
    /\ (last.route = "GET_ID" /\ last.id \in deletedIds) =>
          /\ last.rows = {}
          /\ last.status = IF last.dbok THEN 404 ELSE 500

\* C4 witness: a GET of a deleted id answered 404 while a row created later
\* than the deleted one is in the table.
C4_Witness ==
    /\ last.route = "GET_ID" /\ last.id \in deletedIds /\ last.status = 404
    /\ \E r \in table : r.id > last.id

\* C5: a PUT /employees/:id whose body lacks name, email or department is
\* answered 400, never reaches its UPDATE, and the step that answers it
\* leaves the table and the statements in flight as they were, whether or not
\* the id exists.
C5_InvalidPutWritesNothing ==
    /\ [](\A s \in Slots : inflight[s].route = "PUT" =>
            /\ inflight[s].body.name # ""
            /\ inflight[s].body.email # ""
            /\ inflight[s].body.department # "")
    /\ []((/\ last.route = "PUT"
           /\ last.body.name = "" \/ last.body.email = ""
                \/ last.body.department = "")
          => last.status = 400)
    /\ [][(/\ last'.route = "PUT"
           /\ last'.body.name = "" \/ last'.body.email = ""
                \/ last'.body.department = "")
          => (table' = table /\ inflight' = inflight)]_vars

\* C5 witness: a PUT for the id of a stored row was answered 400 (the id
\* parsed, so a required field was missing) and the row is still stored.
C5_Witness ==
    /\ last.route = "PUT" /\ last.status = 400
    /\ last.id \in Ids(table)
    /\ last.body.name # "" /\ last.body.email = ""

\* C6: the row a POST /employees returns with 201 has an id no row ever had
\* before, also after deletions; ids are unique in the table; an id enters
\* the table only as such a fresh id and leaves it only by its own DELETE
\* answered 200 (no request changes the id of a stored row).
C6_FreshImmutableIds ==
    /\ [](\A r1, r2 \in table : r1.id = r2.id => r1 = r2)
    /\ [][ /\ (last'.route = "POST" /\ last'.status = 201) =>
                /\ Cardinality(last'.rows) = 1
                /\ \A r \in last'.rows : r.id \notin usedIds /\ r \in table'
           /\ \A i \in Ids(table) \ Ids(table') :
                last'.route = "DELETE" /\ last'.status = 200 /\ last'.id = i
           /\ \A i \in Ids(table') \ Ids(table) :
                /\ i \notin usedIds
                /\ last'.route = "POST" /\ last'.status = 201
                /\ \A r \in last'.rows : r.id = i ]_vars

\* C6 witness: a POST answered 201 after some row had been deleted.
C6_Witness ==
    /\ last.route = "POST" /\ last.status = 201
    /\ deletedIds # {}
    /\ \A r \in last.rows : r.id \notin deletedIds

\* C8: the socket listens and requests are taken only after SELECT 1 has
\* succeeded, and an exit with status 1 (the failed check) never listened.
C8_ListenOnlyAfterConnect ==
    /\ proc.listening => proc.connected
    /\ (last # NoResponse \/ \E s \in Slots : inflight[s] # Idle)
          => proc.connected
    /\ (proc.exited /\ proc.code = 1) => ~proc.listening /\ ~proc.connected

\* C8 witness: the server listens and has answered a request.
C8_Witness ==
    proc.listening /\ proc.connected /\ last.status = 200

\* C10: every request runs one atomic statement: the step that answers a PUT
\* with 200 leaves that PUT's complete (name, email, department) in the row
\* and touches no other row; a PUT that finds no row (deleted meanwhile)
\* answers 404 and creates none; no stored row ever mixes the fields of two
\* writers.
C10_LastWriterWinsWhole ==
    /\ [](\A r \in table :
            Triple(r) \in {Triple(SeedRow(1, 1, "employee"))}
                            \cup {b \in Bodies : b.name # "" /\ b.email # ""
                                                  /\ b.department # ""})
    /\ [][last'.route = "PUT" =>
              /\ \A r \in table' : r.id # last'.id => r \in table
              /\ Ids(table') = Ids(table)
              /\ last'.status = 200 =>
                    /\ last'.rows = RowsById(table', last'.id)
                    /\ \A r \in last'.rows : Triple(r) = last'.body
              /\ last'.status # 200 => table' = table
              /\ (last'.id \notin Ids(table) /\ last'.dbok
                    /\ last'.status # 400) => last'.status = 404
         ]_vars

\* C10 witness: a PUT was answered 200 while a PUT of another body for the
\* same id is still in flight.
C10_Witness ==
    /\ last.route = "PUT" /\ last.status = 200
    /\ \E s \in Slots :
         /\ inflight[s].route = "PUT" /\ inflight[s].id = last.id
         /\ inflight[s].body # last.body

C3_LoginAfterReset ==
    ( /\ last.route = "LOGIN" /\ last.sess = NullId /\ last.dbok
      /\ last.pw # ""
      /\ \E r \in table : /\ r.employee_id = last.id
                          /\ r.password = bcryptHash("new", SaltRounds) )
    => last.status = IF last.pw = "new" THEN 200 ELSE 401

\* C7: a request whose session identifier resolves to no row is handled as an
\* anonymous request by the guards and handlers: it does not end in an error.
C7_StaleSessionIsAnonymous ==
    ( /\ last.sess # NullId /\ last.dbok
      /\ \A r \in table : r.employee_id # last.sess )
    => last.status # 500

\* C9: GET /employees/:id of a stored id answers 200 with the row iff the
\* requester is authenticated and is admin, manager or has the requested id as
\* own identifier; every other requester gets 403.
C9_ReadOwnOrPrivileged ==
    (last.route = "GET_ID" /\ last.id \in Ids(table) /\ last.dbok) =>
        IF \E u \in last.user :
              u.role \in {"admin", "manager"} \/ u.employee_id = last.id
        THEN last.status = 200 /\ last.rows = RowsById(table, last.id)
        ELSE last.status = 403

====
